---- MODULE Spec2Model ----
(***************************************************************************)
(* Model of the Wikipedia RAG assistant: WikipediaLoader.chunk_text        *)
(* (src/data_loader.py), WikipediaRAGSystem.add_documents and              *)
(* retrieve_and_generate (src/rag_system.py), index_topics (src/main.py).  *)
(*                                                                         *)
(* Five specifications share the variables:                                *)
(*   SpecChunk     one call of chunk_text, one loop iteration per step     *)
(*   SpecIngest    add_documents calls on one collection, one batch per    *)
(*                 step, the calls interleaved                             *)
(*   SpecRetrieve  retrieve_and_generate calls on an ingested collection   *)
(*   SpecSession   add_documents calls and a sequence of                   *)
(*                 retrieve_and_generate calls on one collection           *)
(*   SpecIndex     requests to POST /index, each calling add_documents     *)
(***************************************************************************)
EXTENDS Integers, Sequences, FiniteSets, TLC

\* ------------------------------------------------------------------------
\* Bounds
\* ------------------------------------------------------------------------
MaxTextLen == 8
MaxChunkParam == 3
MaxArticles == 2
MaxResults == 5
MaxCalls == 2

\* ------------------------------------------------------------------------
\* Program constants
\* ------------------------------------------------------------------------
DefaultChunkSize == 500
DefaultOverlap == 50
batch_size == 100
ContextDocs == 3
ContextChars == 1500
TopSources == 3

VARIABLES
    \* chunk_text (src/data_loader.py:86-98)
    text,        \* the argument text, a sequence of characters
    chunk_size,  \* the argument chunk_size
    overlap,     \* the argument overlap
    words,       \* local words
    i,           \* loop variable of the for statement
    chunks,      \* local chunks, the list that is returned
    starts,      \* history: the value of i at each chunks.append
    cpc,         \* position in chunk_text
    \* the vector store (src/rag_system.py:29)
    collection,  \* self.collection: record id -> stored record
    \* add_documents (src/rag_system.py:36-85), one activation per caller
    articles,    \* the argument articles
    documents,   \* local documents
    metadatas,   \* local metadatas
    ids,         \* local ids
    batch_i,     \* loop variable i of the batch loop
    apc,         \* position in add_documents
    precededBy,  \* history: the callers whose call had ended when this one began
    \* retrieve_and_generate (src/rag_system.py:116-148)
    query,           \* the argument query
    n_results,       \* the argument n_results
    search_results,  \* local search_results
    result,          \* the returned dict
    rpc,             \* position in retrieve_and_generate
    \* the sequence of retrieve_and_generate calls of SpecSession
    asked,     \* history: the collection, query and n_results of the store query of the call
    answered,  \* the store: the queries it has answered, each with its answer
    returned,  \* history: the dicts returned so far, in order, each with what was asked
    \* index_topics (src/main.py:197-221), one activation per caller
    topics,    \* request.topics
    hpc,       \* position in index_topics
    download,  \* history: how search_and_download ended (line 203)
    add_value, \* the value of the expression rag_system.add_documents(articles), line 211
    response   \* the response the client receives

chunkVars == <<text, chunk_size, overlap, words, i, chunks, starts, cpc>>
ingestVars == <<collection, articles, documents, metadatas, ids, batch_i, apc, precededBy>>

retrieveVars == <<query, n_results, search_results, result, rpc>>

sessionVars == <<asked, answered, returned>>
indexVars == <<topics, hpc, download, add_value, response>>
vars == <<chunkVars, ingestVars, retrieveVars, sessionVars, indexVars>>

\* ------------------------------------------------------------------------
\* Python helpers
\* ------------------------------------------------------------------------
Min(a, b) == IF a < b THEN a ELSE b
Max(a, b) == IF a < b THEN b ELSE a

\* s[lo:hi] for a Python list s (0-based, negative indices count from the end)
PyIndex(n, k) == IF k < 0 THEN Max(0, n + k) ELSE Min(n, k)
PySliceShort(s, lo, hi) == SubSeq(s, PyIndex(Len(s), lo) + 1, PyIndex(Len(s), hi - 1))
PySlice(s, lo, hi) == SubSeq(s, PyIndex(Len(s), lo) + 1, PyIndex(Len(s), hi))

\* text.split(): the maximal runs of non-whitespace characters of
\* t[lo..hi], in order (computed by halving, the two halves' words joined
\* where a word straddles the middle)
RECURSIVE SplitRange(_, _, _)
SplitRange(t, lo, hi) ==
    IF lo > hi THEN <<>>
    ELSE IF lo = hi THEN (IF t[lo] = " " THEN <<>> ELSE <<<<t[lo]>>>>)
    ELSE LET mid == (lo + hi) \div 2
             L == SplitRange(t, lo, mid)
             R == SplitRange(t, mid + 1, hi)
         IN  IF t[mid] # " " /\ t[mid + 1] # " "
             THEN SubSeq(L, 1, Len(L) - 1) \o <<L[Len(L)] \o R[1]>> \o Tail(R)
             ELSE L \o R
Split(t) == SplitRange(t, 1, Len(t))

\* ' '.join(ws)
RECURSIVE Join(_)
Join(ws) ==
    IF ws = <<>> THEN <<>>
    ELSE IF Len(ws) = 1 THEN ws[1]
    ELSE LET mid == Len(ws) \div 2
         IN  Join(SubSeq(ws, 1, mid)) \o <<" ">> \o Join(SubSeq(ws, mid + 1, Len(ws)))

\* the step of range(0, len(words), chunk_size - overlap)
StrideSum(cs, ov) == cs + ov
Stride(cs, ov) == cs - ov

\* the test of line 95: the window starting at k reaches the end of n words
ReachesEndStrict(k, cs, n) == k + cs > n
ReachesEnd(k, cs, n) == k + cs >= n

\* ------------------------------------------------------------------------
\* The state outside a call
\* ------------------------------------------------------------------------
\* the two callers of add_documents
Callers == {"A", "B"}


EmptyCollection == {}

\* the positions of add_documents after the call has ended
Ended == {"done", "EmbeddingError", "DuplicateIDError"}

CallersIdle ==
    /\ articles = [p \in Callers |-> <<>>]
    /\ documents = [p \in Callers |-> <<>>]
    /\ metadatas = [p \in Callers |-> <<>>]
    /\ ids = [p \in Callers |-> <<>>]
    /\ batch_i = [p \in Callers |-> 0]
    /\ apc = [p \in Callers |-> "idle"]
    /\ precededBy = [p \in Callers |-> {}]

IngestIdle ==
    /\ collection = EmptyCollection
    /\ CallersIdle

NoResults == [documents |-> <<<<>>>>, metadatas |-> <<<<>>>>, distances |-> <<<<>>>>]
NoResult == [query |-> "", answer |-> [query |-> "", context |-> 0, chars |-> 0],
             sources |-> <<>>, retrieved_chunks |-> 0]

RetrieveIdle ==
    /\ query = ""
    /\ n_results = 0
    /\ search_results = NoResults
    /\ result = NoResult
    /\ rpc = "idle"

NoKey == [collection |-> EmptyCollection, query |-> "", n_results |-> 0]

SessionIdle ==
    /\ asked = NoKey
    /\ answered = {}
    /\ returned = <<>>

NoResponse == [status |-> 0]

\* The value of a call expression is written as the set of the integers it
\* is: None is no integer, the integer n is {n}; Unset stands for a call
\* that has not returned.
None == {}
Unset == {-1}

IndexIdle ==
    /\ topics = [p \in Callers |-> <<>>]
    /\ hpc = [p \in Callers |-> "idle"]
    /\ download = [p \in Callers |-> "pending"]
    /\ add_value = [p \in Callers |-> Unset]
    /\ response = [p \in Callers |-> NoResponse]

ChunkIdle ==
    /\ text = <<>>
    /\ chunk_size = DefaultChunkSize
    /\ overlap = DefaultOverlap
    /\ words = <<>>
    /\ i = 0
    /\ chunks = <<>>
    /\ starts = <<>>
    /\ cpc = "done"

\* ------------------------------------------------------------------------
\* chunk_text, one loop iteration per step
\* ------------------------------------------------------------------------
Chars == {"a", " "}
Texts == UNION {[1..n -> Chars] : n \in 0..MaxTextLen}
ChunkParams == (-1)..MaxChunkParam

\* the 1200-word document of the concrete scenario
ScenarioText == [k \in 1..2399 |-> IF k % 2 = 1 THEN "a" ELSE " "]

InitChunk ==
    /\ \/ /\ text \in Texts
          /\ chunk_size \in ChunkParams
          /\ overlap \in ChunkParams
       \/ /\ text = ScenarioText
          /\ chunk_size = DefaultChunkSize
          /\ overlap = DefaultOverlap
    /\ words = <<>>
    /\ i = 0
    /\ chunks = <<>>
    /\ starts = <<>>
    /\ cpc = "start"
    /\ IngestIdle
    /\ RetrieveIdle
    /\ SessionIdle
    /\ IndexIdle

\* lines 88-91: split, and evaluate range(0, len(words), chunk_size - overlap)
ChunkEnter ==
    /\ cpc = "start"
    /\ words' = Split(text)
    /\ chunks' = <<>>
    /\ i' = 0
    /\ cpc' = IF Stride(chunk_size, overlap) = 0 THEN "ValueError"
              ELSE IF Stride(chunk_size, overlap) < 0 \/ Len(words') = 0 THEN "return"
              ELSE "loop"
    /\ UNCHANGED <<text, chunk_size, overlap, starts, ingestVars, retrieveVars, sessionVars, indexVars>>

\* lines 92-96: one iteration of the loop body, then the next value of the range
ChunkIterate ==
    /\ cpc = "loop"
    /\ chunks' = Append(chunks, Join(PySlice(words, i, i + chunk_size)))
    /\ starts' = Append(starts, i)
    /\ IF ReachesEnd(i, chunk_size, Len(words))
       THEN /\ cpc' = "return"
            /\ i' = i
       ELSE IF i + Stride(chunk_size, overlap) < Len(words)
            THEN /\ cpc' = "loop"
                 /\ i' = i + Stride(chunk_size, overlap)
            ELSE /\ cpc' = "return"
                 /\ i' = i
    /\ UNCHANGED <<text, chunk_size, overlap, words, ingestVars, retrieveVars, sessionVars, indexVars>>

\* line 98
ChunkReturn ==
    /\ cpc = "return"
    /\ cpc' = "done"
    /\ UNCHANGED <<text, chunk_size, overlap, words, i, chunks, starts, ingestVars, retrieveVars, sessionVars, indexVars>>

NextChunk == ChunkEnter \/ ChunkIterate \/ ChunkReturn

SpecChunk == InitChunk /\ [][NextChunk]_vars

\* ------------------------------------------------------------------------
\* add_documents: the lists it builds (lines 41-62)
\* ------------------------------------------------------------------------
\* In SpecIngest and SpecRetrieve an article's content is a text of n
\* one-letter words separated by single blanks, written as the number n; a
\* chunk of such a text is again such a text, written as its number of words.

\* the j-th value (j = 1, 2, ...) of range(0, n, chunk_size - overlap), line 91
RangeValue(j, cs, ov) == (j - 1) * Stride(cs, ov)

\* the number of iterations of the loop of lines 91-96 on n > 0 words with
\* a positive stride: the first iteration that breaks (line 95) or exhausts
\* the range
Iterations(n, cs, ov) ==
    CHOOSE m \in 1..n :
        /\ ReachesEnd(RangeValue(m, cs, ov), cs, n) \/ RangeValue(m + 1, cs, ov) >= n
        /\ \A j \in 1..(m - 1) :
              /\ ~ReachesEnd(RangeValue(j, cs, ov), cs, n)
              /\ RangeValue(j + 1, cs, ov) < n

\* chunk_text on a text of n one-letter words: the chunk of iteration j is
\* words[i:i + chunk_size] with i the j-th value of the range (line 92)
ChunkWords(n, cs, ov) ==
    IF n = 0 THEN <<>>
    ELSE [j \in 1..Iterations(n, cs, ov) |->
            Min(n, RangeValue(j, cs, ov) + cs) - RangeValue(j, cs, ov)]

\* loader.chunk_text(article['content']) with the default parameters (line 49)
chunk_text(n) == ChunkWords(n, DefaultChunkSize, DefaultOverlap)

\* str(n) for n >= 0
Digit == <<"0", "1", "2", "3", "4", "5", "6", "7", "8", "9">>
RECURSIVE Str(_)
Str(n) == IF n < 10 THEN Digit[n + 1] ELSE Str(n \div 10) \o Digit[(n % 10) + 1]

\* f"{doc_id}_{chunk_idx}" (line 60)
FormatIdNoSep(doc_id, chunk_idx) == Str(doc_id) \o Str(chunk_idx)
FormatId(doc_id, chunk_idx) == Str(doc_id) \o "_" \o Str(chunk_idx)

\* doc_id += 1 (line 62)
SameDocId(doc_id) == doc_id
NextDocId(doc_id) == doc_id + 1

\* lines 47-62: the loop over the articles, from article number k on
RECURSIVE BuildLists(_, _, _, _)
BuildLists(arts, k, doc_id, acc) ==
    IF k > Len(arts) THEN acc
    ELSE LET article == arts[k]
             cks == chunk_text(article.content)
             metas == [c \in 1..Len(cks) |->
                         [title |-> article.title, url |-> article.url,
                          topic |-> article.topic, chunk_id |-> c - 1,
                          total_chunks |-> Len(cks)]]
             newIds == [c \in 1..Len(cks) |-> FormatId(doc_id, c - 1)]
         IN  BuildLists(arts, k + 1, NextDocId(doc_id),
                        [documents |-> acc.documents \o cks,
                         metadatas |-> acc.metadatas \o metas,
                         ids |-> acc.ids \o newIds])

\* lines 41-45: the empty lists and doc_id = 0
InitialDocId == 0
Built(arts) ==
    BuildLists(arts, 1, InitialDocId, [documents |-> <<>>, metadatas |-> <<>>, ids |-> <<>>])

\* ------------------------------------------------------------------------
\* The chromadb collection (chromadb.PersistentClient, line 26)
\* ------------------------------------------------------------------------
\* The collection is the set of its records; `call` is history: the caller
\* whose add stored the record.
\* collection.add(documents, metadatas, embeddings, ids): a record whose id is
\* not in the collection is inserted, a record whose id is already there is
\* ignored (add is not upsert).
CollectionAdd(coll, bdocs, bmetas, bids, p) ==
    LET present == {r.id : r \in coll}
    IN  coll \cup {[id |-> bids[k], document |-> bdocs[k], metadata |-> bmetas[k], call |-> p] :
                      k \in {j \in 1..Len(bids) : bids[j] \notin present}}

\* collection.add rejects a batch that names an id twice (DuplicateIDError)
DistinctIds(bids) == Cardinality({bids[k] : k \in 1..Len(bids)}) = Len(bids)

\* collection.count()
Count(coll) == Cardinality(coll)

\* ------------------------------------------------------------------------
\* add_documents, one batch per step
\* ------------------------------------------------------------------------
Article(t, tp, n) ==
    [title |-> t, url |-> "https://en.wikipedia.org/wiki/" \o t, topic |-> tp, content |-> n]

\* articles of 0, 2, 3 and 101 chunks
Palette ==
    { Article("Empty", "x", 0), Article("Python", "x", 501),
      Article("FastAPI", "y", 951), Article("History", "y", 45100) }
ArticleLists == UNION {[1..n -> Palette] : n \in 0..MaxArticles}

InitIngest == ChunkIdle /\ IngestIdle /\ RetrieveIdle /\ SessionIdle /\ IndexIdle

\* the lists of every input, built once
BuiltTable == {<<arts, Built(arts)>> : arts \in ArticleLists}

\* lines 36-69: the call, the lists, and the first evaluation of
\* range(0, len(documents), batch_size) (the call returns when it is empty)
AddDocumentsStart(p, e) ==
    /\ apc[p] = "idle"
    /\ LET arts == e[1]
           b == e[2]
       IN  /\ articles' = [articles EXCEPT ![p] = arts]
           /\ documents' = [documents EXCEPT ![p] = b.documents]
           /\ metadatas' = [metadatas EXCEPT ![p] = b.metadatas]
           /\ ids' = [ids EXCEPT ![p] = b.ids]
           /\ apc' = [apc EXCEPT ![p] = IF Len(b.documents) > 0 THEN "batch" ELSE "done"]
    /\ batch_i' = [batch_i EXCEPT ![p] = 0]
    /\ precededBy' = [precededBy EXCEPT ![p] = {q \in Callers : apc[q] \in Ended}]
    /\ UNCHANGED collection

\* a call made directly on the system, with any list of articles
AddDocumentsCall(p) ==
    /\ \E e \in BuiltTable : AddDocumentsStart(p, e)
    /\ UNCHANGED <<chunkVars, retrieveVars, sessionVars, indexVars>>

\* lines 70-85: one batch is encoded and added; then the next value of the
\* range, or the end of the loop and the return
AddBatch(p) ==
    /\ apc[p] = "batch"
    /\ LET lo == batch_i[p]
           hi == batch_i[p] + batch_size
           batch_ids == PySlice(ids[p], lo, hi)
       IN  IF DistinctIds(batch_ids)
           THEN /\ collection' = CollectionAdd(collection,
                                     PySlice(documents[p], lo, hi),
                                     PySlice(metadatas[p], lo, hi),
                                     batch_ids, p)
                /\ IF hi < Len(documents[p])
                   THEN /\ batch_i' = [batch_i EXCEPT ![p] = hi]
                        /\ apc' = apc
                   ELSE /\ batch_i' = batch_i
                        /\ apc' = [apc EXCEPT ![p] = "done"]
           ELSE /\ apc' = [apc EXCEPT ![p] = "DuplicateIDError"]
                /\ UNCHANGED <<collection, batch_i>>
    /\ UNCHANGED <<articles, documents, metadatas, ids, precededBy, chunkVars, retrieveVars, sessionVars, indexVars>>

\* line 75: self.embedding_model.encode raises; nothing in add_documents
\* catches it, so the call ends with the exception
EncodeRaises(p) ==
    /\ apc[p] = "batch"
    /\ apc' = [apc EXCEPT ![p] = "EmbeddingError"]
    /\ UNCHANGED <<collection, articles, documents, metadatas, ids, batch_i, precededBy, chunkVars, retrieveVars, sessionVars, indexVars>>

NextIngest ==
    \E p \in Callers :
        \/ AddDocumentsCall(p)
        \/ AddBatch(p)
        \/ EncodeRaises(p)

SpecIngest == InitIngest /\ [][NextIngest]_vars

\* ------------------------------------------------------------------------
\* retrieve_and_generate
\* ------------------------------------------------------------------------
\* the number of characters of a chunk of m one-letter words
ChunkChars(m) == IF m = 0 THEN 0 ELSE 2 * m - 1

\* the number of characters of "\n\n".join(docs)
RECURSIVE JoinedChars(_)
JoinedChars(docs) ==
    IF docs = <<>> THEN 0
    ELSE IF Len(docs) = 1 THEN ChunkChars(docs[1])
    ELSE ChunkChars(docs[1]) + 2 + JoinedChars(Tail(docs))

\* the literal parts of the template of generate_answer (lines 107-112)
AnswerHead == "Based on the Wikipedia articles, here's what I found about your query: \""
AnswerMid == "\"\n\nContext from Wikipedia:\n"
AnswerTail == "...\n\nThis information comes from Wikipedia articles. For more detailed information, please refer to the original sources."

\* generate_answer(query, context_docs) (lines 101-114). The answer string is
\* written as its query, the number of characters of context[:1500] and its
\* total number of characters.
GenerateAnswerContextOnly(q, context_docs) ==
    LET context == Min(ContextChars, JoinedChars(PySlice(context_docs, 0, ContextDocs)))
    IN  [query |-> q, context |-> context, chars |-> context]
GenerateAnswer(q, context_docs) ==
    LET context == Min(ContextChars, JoinedChars(PySlice(context_docs, 0, ContextDocs)))
    IN  [query |-> q, context |-> context,
         chars |-> Len(AnswerHead) + Len(q) + Len(AnswerMid) + context + Len(AnswerTail)]

\* the test of line 134
AlwaysNew(title, seen_titles) == TRUE
NotSeen(title, seen_titles) == title \notin seen_titles

\* lines 130-141: the loop over zip(metadatas, distances), from pair k on
RECURSIVE SourcesLoop(_, _, _, _, _)
SourcesLoop(metas, dists, k, sources, seen_titles) ==
    IF k > Min(Len(metas), Len(dists)) THEN sources
    ELSE IF NotSeen(metas[k].title, seen_titles)
         THEN SourcesLoop(metas, dists, k + 1,
                          Append(sources, [title |-> metas[k].title, url |-> metas[k].url,
                                           topic |-> metas[k].topic,
                                           relevance_score |-> 1 - dists[k]]),
                          seen_titles \cup {metas[k].title})
         ELSE SourcesLoop(metas, dists, k + 1, sources, seen_titles)

\* the distances the store reports (cosine distance of identical and of
\* orthogonal embeddings)
Distances == {0, 1}

\* collection.query(query_embeddings, n_results, include): the n_results
\* nearest records, fewer when the collection holds fewer, nearest first; the
\* embedding model decides which records those are and at which distances
QueryOutcomes(coll, n) ==
    LET k == Min(n, Count(coll))
    IN  {<<recs, dists>> \in [1..k -> coll] \X [1..k -> Distances] :
            /\ \A a \in 1..k : \A b \in 1..k : a # b => recs[a] # recs[b]
            /\ \A a \in 1..(k - 1) : dists[a] <= dists[a + 1]}

Queries == {"", "anything"}

\* the articles the stored collections of SpecRetrieve are ingested from
StoredArticles ==
    << Article("Python", "x", 501), Article("Python", "y", 1), Article("FastAPI", "x", 501),
       Article("History", "y", 1), Article("Pydantic", "x", 1) >>

\* the articles at the positions S, in order
Picked(S) ==
    [k \in 1..Cardinality(S) |->
        StoredArticles[CHOOSE x \in S : Cardinality({y \in S : y < x}) = k - 1]]

\* the collection after one add_documents call on the empty collection
Ingested(arts) ==
    LET b == Built(arts)
    IN  CollectionAdd(EmptyCollection, b.documents, b.metadatas, b.ids, "A")

StoredCollections == {Ingested(Picked(S)) : S \in SUBSET (1..Len(StoredArticles))}

\* the collection opened at construction (get_or_create_collection, line 29)
\* is one that was ingested earlier, or is new and empty
InitRetrieve ==
    /\ ChunkIdle
    /\ collection \in StoredCollections
    /\ CallersIdle
    /\ RetrieveIdle
    /\ SessionIdle
    /\ IndexIdle

\* the dict collection.query returns for one query embedding (lines 93-97)
QueryResults(o) ==
    [documents |-> <<[k \in 1..Len(o[1]) |-> o[1][k].document]>>,
     metadatas |-> <<[k \in 1..Len(o[1]) |-> o[1][k].metadata]>>,
     distances |-> <<o[2]>>]

\* lines 116-119 and 87-99: the call and search_similar_documents
SearchSimilarDocuments ==
    /\ rpc = "idle"
    /\ query' \in Queries
    /\ n_results' \in 1..MaxResults
    /\ \E o \in QueryOutcomes(collection, n_results') : search_results' = QueryResults(o)
    /\ rpc' = "searched"
    /\ UNCHANGED <<result, chunkVars, ingestVars, sessionVars, indexVars>>

\* "retrieved_chunks": len(documents) (line 147)
RetrievedChunksSources(docs, sources) == Len(sources)
RetrievedChunks(docs, sources) == Len(docs)

\* seen_titles = set() (line 131): the set starts empty in every call,
\* whatever the call before it returned
SeenTitlesKept(previous) == {previous.sources[k].title : k \in 1..Len(previous.sources)}
SeenTitlesInit(previous) == {}

\* lines 121-148: the answer, the sources and the returned dict
RetrieveBody ==
    /\ rpc = "searched"
    /\ LET docs == search_results.documents[1]
           metas == search_results.metadatas[1]
           dists == search_results.distances[1]
           answer == GenerateAnswer(query, docs)
           sources == SourcesLoop(metas, dists, 1, <<>>, SeenTitlesInit(result))
       IN  result' = [query |-> query, answer |-> answer,
                      sources |-> PySlice(sources, 0, TopSources),
                      retrieved_chunks |-> RetrievedChunks(docs, sources)]
    /\ rpc' = "returned"
    /\ UNCHANGED <<query, n_results, search_results>>

RetrieveReturn ==
    /\ RetrieveBody
    /\ UNCHANGED <<chunkVars, ingestVars, sessionVars, indexVars>>

NextRetrieve == SearchSimilarDocuments \/ RetrieveReturn

SpecRetrieve == InitRetrieve /\ [][NextRetrieve]_vars

\* ------------------------------------------------------------------------
\* A session: add_documents calls and retrieve_and_generate calls, one after
\* the other, on one collection
\* ------------------------------------------------------------------------
\* The embedding model and the index of the store are fixed functions: a
\* query the store has answered is answered the same way again as long as
\* the collection holds the same records.

\* the lists of articles ingested in a session
SessionLists ==
    { <<Article("Python", "x", 1)>>,
      <<Article("Python", "x", 1), Article("FastAPI", "y", 1)>> }
SessionTable == {<<arts, Built(arts)>> : arts \in SessionLists}
SessionResults == {1, 2}

InitSession == ChunkIdle /\ IngestIdle /\ RetrieveIdle /\ SessionIdle /\ IndexIdle

\* add_documents, lines 36-69
SessionAddDocuments(p) ==
    /\ \E e \in SessionTable : AddDocumentsStart(p, e)
    /\ UNCHANGED <<chunkVars, retrieveVars, sessionVars, indexVars>>

\* lines 116-119 and 87-99: a call after the one before it has returned, and
\* search_similar_documents
SessionSearch ==
    /\ rpc \in {"idle", "returned"}
    /\ Len(returned) < MaxCalls
    /\ query' \in Queries
    /\ n_results' \in SessionResults
    /\ asked' = [collection |-> collection, query |-> query', n_results |-> n_results']
    /\ IF \E a \in answered : a.asked = asked'
       THEN /\ \E a \in answered : a.asked = asked' /\ search_results' = a.results
            /\ answered' = answered
       ELSE /\ \E o \in QueryOutcomes(collection, n_results') :
                  search_results' = QueryResults(o)
            /\ answered' = answered \cup {[asked |-> asked', results |-> search_results']}
    /\ rpc' = "searched"
    /\ UNCHANGED <<result, returned, chunkVars, ingestVars, indexVars>>

\* lines 121-148
SessionReturn ==
    /\ RetrieveBody
    /\ returned' = Append(returned, [asked |-> asked, result |-> result'])
    /\ UNCHANGED <<asked, answered, chunkVars, ingestVars, indexVars>>

NextSession ==
    \/ \E p \in Callers : SessionAddDocuments(p) \/ AddBatch(p)
    \/ SessionSearch
    \/ SessionReturn

SpecSession == InitSession /\ [][NextSession]_vars

\* ------------------------------------------------------------------------
\* index_topics, the handler of POST /index (src/main.py:197-221)
\* ------------------------------------------------------------------------
TopicLists == {<<"x">>, <<"y">>, <<"x", "y">>}

\* search_and_download(topics, max_articles) appends the articles topic by
\* topic (data_loader.py lines 19-38): every article carries one of the
\* topics, and the articles of an earlier topic come first
TopicIndex(tps, t) == CHOOSE n \in 1..Len(tps) : tps[n] = t
InTopicOrder(arts, tps) ==
    /\ \A k \in 1..Len(arts) : \E n \in 1..Len(tps) : tps[n] = arts[k].topic
    /\ \A j \in 1..Len(arts) : \A k \in j..Len(arts) :
          TopicIndex(tps, arts[j].topic) <= TopicIndex(tps, arts[k].topic)

\* what search_and_download returns for the topics tps: lists of
\* articles of up to three chunks
Downloads(tps) ==
    {e \in BuiltTable : /\ InTopicOrder(e[1], tps)
                        /\ \A k \in 1..Len(e[1]) : e[1][k].title # "History"}

\* detail="No articles found for the given topics" (line 209)
NoArticlesDetail == "No articles found for the given topics"

\* str(e) of HTTPException(status_code=..., detail=...): "<status_code>:
\* <detail>" where the installed starlette defines HTTPException.__str__, the
\* empty string where it does not (the exception is built from keyword
\* arguments, so its args are empty)
StrHTTPException(status_code, detail) == {Str(status_code) \o ": " \o detail, ""}

\* lines 219-221: except Exception as e: raise HTTPException(500, str(e))
Caught(str_e) == [status |-> 500, detail |-> str_e]

\* "total_articles": len(articles) (line 216)
TotalPassages(arts, docs) == Len(docs)
TotalArticles(arts, docs) == Len(arts)

InitIndex == ChunkIdle /\ IngestIdle /\ RetrieveIdle /\ SessionIdle /\ IndexIdle

\* lines 198-211: the request, search_and_download, the test of line 208 and
\* the call of add_documents up to its batch loop
IndexTopics(p) ==
    /\ hpc[p] = "idle"
    /\ \E tps \in TopicLists :
          /\ topics' = [topics EXCEPT ![p] = tps]
          /\ \/ \* save_articles raises (data_loader.py line 66): line 219
                /\ download' = [download EXCEPT ![p] = "raised"]
                /\ response' = [response EXCEPT ![p] = Caught("OSError")]
                /\ hpc' = [hpc EXCEPT ![p] = "responded"]
                /\ UNCHANGED ingestVars
             \/ \E e \in Downloads(tps) :
                   /\ IF e[1] = <<>>
                      THEN \* line 209 raises inside the try of line 199: line 219
                           /\ download' = [download EXCEPT ![p] = "empty"]
                           /\ \E str_e \in StrHTTPException(404, NoArticlesDetail) :
                                 response' = [response EXCEPT ![p] = Caught(str_e)]
                           /\ hpc' = [hpc EXCEPT ![p] = "responded"]
                           /\ UNCHANGED ingestVars
                      ELSE /\ download' = [download EXCEPT ![p] = "articles"]
                           /\ AddDocumentsStart(p, e)
                           /\ hpc' = [hpc EXCEPT ![p] = "ingesting"]
                           /\ UNCHANGED response
    /\ UNCHANGED <<add_value, chunkVars, retrieveVars, sessionVars>>

\* lines 211-221: add_documents has ended; with an exception the handler
\* answers from line 221, otherwise the call expression has the value None
\* (add_documents ends at line 85 without a return statement) and the
\* handler answers from line 213
IndexRespond(p) ==
    /\ hpc[p] = "ingesting"
    /\ apc[p] \in Ended
    /\ IF apc[p] = "done"
       THEN /\ add_value' = [add_value EXCEPT ![p] = None]
            /\ response' = [response EXCEPT ![p] =
                                [status |-> 200,
                                 message |-> "Topics indexed successfully",
                                 topics |-> topics[p],
                                 total_articles |-> TotalArticles(articles[p], documents[p])]]
       ELSE /\ response' = [response EXCEPT ![p] = Caught(apc[p])]
            /\ UNCHANGED add_value
    /\ hpc' = [hpc EXCEPT ![p] = "responded"]
    /\ UNCHANGED <<topics, download, chunkVars, ingestVars, retrieveVars, sessionVars>>

NextIndex ==
    \E p \in Callers :
        \/ IndexTopics(p)
        \/ AddBatch(p)
        \/ EncodeRaises(p)
        \/ IndexRespond(p)

SpecIndex == InitIndex /\ [][NextIndex]_vars

\* ------------------------------------------------------------------------
\* Properties of chunk_text
\* ------------------------------------------------------------------------
ValidParams == chunk_size > overlap /\ overlap >= 0

\* the token positions (0-based) of the window of the j-th emitted chunk
Window(j) == {p \in 0..(Len(words) - 1) : starts[j] <= p /\ p < starts[j] + chunk_size}

\* C1: with chunk_size > overlap >= 0, the returned chunks cover every token
\* position of the text, each chunk is the join of the tokens of its window,
\* and the chunks are emitted in increasing window-start order.
C1_Coverage ==
    (cpc = "done" /\ ValidParams) =>
        /\ Len(chunks) = Len(starts)
        /\ \A p \in 0..(Len(words) - 1) : \E j \in 1..Len(chunks) : p \in Window(j)
        /\ \A j \in 1..Len(chunks) :
              chunks[j] = Join([k \in 1..Cardinality(Window(j)) |-> words[starts[j] + k]])
        /\ \A j \in 1..(Len(chunks) - 1) : starts[j] < starts[j + 1]

C1_Witness ==
    /\ cpc = "done" /\ ValidParams /\ overlap >= 1
    /\ Len(chunks) >= 3
    /\ \E j \in 1..Len(words) : Len(words[j]) >= 2

\* C2: with chunk_size > overlap >= 0, any two adjacent chunks share exactly
\* `overlap` token positions, the last `overlap` tokens of the earlier chunk
\* being the first `overlap` tokens of the later one (the code needs no
\* exception for the final chunk: a chunk that is followed by another one is
\* full, and the one that follows it has more than `overlap` tokens).
C2_AdjacentOverlap ==
    ValidParams =>
        \A j \in 1..(Len(chunks) - 1) :
            LET A == Split(chunks[j])
                B == Split(chunks[j + 1])
            IN  /\ Cardinality(Window(j) \cap Window(j + 1)) = overlap
                /\ Len(A) >= overlap
                /\ Len(B) >= overlap
                /\ SubSeq(A, Len(A) - overlap + 1, Len(A)) = SubSeq(B, 1, overlap)

C2_Witness ==
    /\ cpc = "done" /\ ValidParams /\ overlap = 1
    /\ Len(chunks) = 2
    /\ Len(Split(chunks[2])) < chunk_size
    /\ words[2] # words[3]

\* C3: with parameters violating chunk_size > overlap >= 0, chunk_text
\* raises at call entry: it never runs its loop and never returns chunks.
C3_InvalidParamsRaise ==
    ~ValidParams => cpc \in {"start", "ValueError"}

C4_Safety ==
    ValidParams =>
        /\ cpc # "ValueError"
        /\ cpc = "loop" =>
              \A j \in 1..Len(starts) : starts[j] + chunk_size < Len(words)
        /\ cpc \in {"return", "done"} =>
              /\ \A j \in 1..Len(starts) :
                    (j = Len(starts)) <=> (starts[j] + chunk_size >= Len(words))
              /\ (text = <<>>) => (chunks = <<>>)
        /\ \A j \in 1..Len(chunks) : chunks[j] # <<>>
        /\ (cpc = "done" /\ text = ScenarioText /\ chunk_size = 500 /\ overlap = 50) =>
              /\ starts = <<0, 450, 900>>
              /\ [j \in 1..3 |-> Len(Split(chunks[j]))] = <<500, 500, 300>>

\* C4: with valid parameters chunk_text terminates; an emitted chunk is the
\* last one iff its window end reaches or exceeds the token count; empty
\* text yields no chunk; no emitted chunk is empty; the 1200-token text with
\* chunk_size=500, overlap=50 yields the windows [0:500), [450:950), [900:1200).
\* Termination: with valid parameters no position of chunk_text is stuck,
\* and each iteration that stays in the loop moves i strictly forward below
\* len(words), so the loop runs at most len(words) times
C4_Termination ==
    /\ []C4_Safety
    /\ []((ValidParams /\ cpc \in {"start", "loop", "return"}) => ENABLED NextChunk)
    /\ [][(ValidParams /\ cpc = "loop" /\ cpc' = "loop") => (i < i' /\ i' < Len(words))]_vars
    /\ [][(ValidParams /\ cpc = "return") => cpc' = "done"]_vars

C4_Witness ==
    /\ cpc = "done" /\ text = ScenarioText /\ Len(chunks) = 3

C4_WitnessEmpty ==
    /\ cpc = "done" /\ text = <<>> /\ ValidParams

\* ------------------------------------------------------------------------
\* Properties of add_documents
\* ------------------------------------------------------------------------
\* the number of chunks of each article of a call, in input order
ChunkCounts(arts) == [d \in 1..Len(arts) |-> Len(chunk_text(arts[d].content))]

\* the number of chunks of the first d articles
RECURSIVE ChunksBefore(_, _)
ChunksBefore(counts, d) ==
    IF d = 0 THEN 0 ELSE ChunksBefore(counts, d - 1) + counts[d]

IdSet(p) == {ids[p][k] : k \in 1..Len(ids[p])}

\* the ids "d_c" of an input, written position by position: position k
\* belongs to the document d whose chunks surround it
ExpectedIds(arts) ==
    LET counts == ChunkCounts(arts)
        docOf(k) == CHOOSE d \in 1..Len(counts) :
                        ChunksBefore(counts, d - 1) < k /\ k <= ChunksBefore(counts, d)
    IN  [k \in 1..ChunksBefore(counts, Len(counts)) |->
            Str(docOf(k) - 1) \o "_" \o Str(k - ChunksBefore(counts, docOf(k) - 1) - 1)]

\* the expected ids of every input, written once
ExpectedTable == {<<arts, ExpectedIds(arts)>> : arts \in ArticleLists}

\* a call that ran alone on the empty collection
AloneOnEmpty(p) == apc[p] = "done" /\ \A q \in Callers \ {p} : apc[q] = "idle"

\* C5: within one add_documents call the d-th document (d from 0, counting
\* documents without chunks too) gets the ids "d_c", c = 0..chunks(d)-1; the
\* ids of the call are pairwise distinct; ingesting into an empty collection
\* leaves count() equal to the number of chunks (3 and 2 chunks: count 5).
C5_IdsWithinCall ==
    \A p \in Callers :
        /\ apc[p] # "idle" =>
              /\ <<articles[p], ids[p]>> \in ExpectedTable
              /\ Cardinality(IdSet(p)) = Len(ids[p])
              /\ (Len(articles[p]) = 2 /\ ChunkCounts(articles[p]) = <<3, 2>>) =>
                    ids[p] = <<"0_0", "0_1", "0_2", "1_0", "1_1">>
        /\ AloneOnEmpty(p) =>
              /\ Count(collection) = Len(ids[p])
              /\ {r.id : r \in collection} = IdSet(p)
              /\ (Len(articles[p]) = 2 /\ ChunkCounts(articles[p]) = <<3, 2>>) =>
                    Count(collection) = 5

C5_Witness ==
    \E p \in Callers :
        /\ AloneOnEmpty(p)
        /\ ChunkCounts(articles[p]) = <<3, 2>>
        /\ Count(collection) = 5

C5_WitnessNoChunks ==
    \E p \in Callers :
        /\ AloneOnEmpty(p)
        /\ Len(articles[p]) = 2 /\ articles[p][1].content = 0
        /\ "1_1" \in IdSet(p)

\* C6: the ids of a call that begins after another call has ended are
\* disjoint from the ids of that earlier call, and after both calls count()
\* is the sum of their numbers of passages.
C6_FreshIdsAcrossCalls ==
    \A p \in Callers : \A q \in precededBy[p] :
        /\ IdSet(p) \cap IdSet(q) = {}
        /\ (apc[p] = "done" /\ apc[q] = "done") =>
              Count(collection) = Len(ids[p]) + Len(ids[q])

\* two calls are concurrent when neither began after the other had ended
Concurrent(p, q) ==
    /\ p # q
    /\ apc[p] # "idle" /\ apc[q] # "idle"
    /\ q \notin precededBy[p] /\ p \notin precededBy[q]

\* C7: two concurrent add_documents calls generate no common id, and every
\* record a call has added is in the collection as that call's record.
C7_ConcurrentIdsDisjoint ==
    \A p \in Callers : \A q \in Callers :
        Concurrent(p, q) =>
            /\ IdSet(p) \cap IdSet(q) = {}
            /\ \A k \in 1..Len(ids[p]) :
                  (apc[p] = "done" \/ k <= batch_i[p]) =>
                      \E r \in collection : r.id = ids[p][k] /\ r.call = p

\* the record of the k-th passage of the call of p
RecordOf(p, k) ==
    [id |-> ids[p][k], document |-> documents[p][k], metadata |-> metadatas[p][k], call |-> p]

\* C8: when the embedding call fails on batch k of a call, the call ends
\* with that error, every record of its batches 0..k-1 is in the collection
\* and no record of its batch k or of a later batch is.
C8_FailedBatch ==
    \A p \in Callers :
        apc[p] = "EmbeddingError" =>
            /\ \A k \in 1..batch_i[p] : RecordOf(p, k) \in collection
            /\ \A k \in (batch_i[p] + 1)..Len(ids[p]) : RecordOf(p, k) \notin collection

\* ------------------------------------------------------------------------
\* Properties of retrieve_and_generate
\* ------------------------------------------------------------------------
\* the positions of the results that are the first with their title
FirstSeen(metas) ==
    {k \in 1..Len(metas) : \A j \in 1..(k - 1) : metas[j].title # metas[k].title}

\* the s-th smallest element of a set of numbers
Nth(S, n) == CHOOSE x \in S : Cardinality({y \in S : y < x}) = n - 1

\* C9: the sources are the first min(3, number of distinct titles) distinct
\* titles of the result list in first-seen order, each with the url, topic
\* and relevance_score = 1 - distance of the first result with that title;
\* never more than 3 whatever n_results is, and no title twice.
C9_Sources ==
    rpc = "returned" =>
        LET metas == search_results.metadatas[1]
            dists == search_results.distances[1]
            first == FirstSeen(metas)
            sources == result.sources
        IN  /\ Len(sources) = Min(3, Cardinality({metas[k].title : k \in 1..Len(metas)}))
            /\ \A n \in 1..Len(sources) :
                  LET k == Nth(first, n)
                  IN  sources[n] = [title |-> metas[k].title, url |-> metas[k].url,
                                    topic |-> metas[k].topic,
                                    relevance_score |-> 1 - dists[k]]
            /\ \A a \in 1..Len(sources) : \A b \in 1..Len(sources) :
                  a # b => sources[a].title # sources[b].title

C9_Witness ==
    /\ rpc = "returned" /\ n_results = 5
    /\ result.retrieved_chunks = 5
    /\ Cardinality(FirstSeen(search_results.metadatas[1])) = 4
    /\ Len(result.sources) = 3
    /\ search_results.metadatas[1][1].title = search_results.metadatas[1][3].title
    /\ search_results.metadatas[1][1].topic # search_results.metadatas[1][3].topic
    /\ search_results.distances[1][1] # search_results.distances[1][3]
    /\ 3 \notin FirstSeen(search_results.metadatas[1])

C9_WitnessTwoTitles ==
    /\ rpc = "returned" /\ n_results = 5
    /\ result.retrieved_chunks = 5
    /\ Cardinality(FirstSeen(search_results.metadatas[1])) = 2
    /\ Len(result.sources) = 2

C11_RetrievedChunks ==
    rpc = "returned" =>
        /\ result.retrieved_chunks = Len(search_results.documents[1])
        /\ result.retrieved_chunks = Len(search_results.metadatas[1])
        /\ result.retrieved_chunks = Min(n_results, Count(collection))

\* four passages returned, two of them of an article already listed
C11_Witness ==
    /\ rpc = "returned"
    /\ result.retrieved_chunks = 4
    /\ Len(result.sources) = 2
    /\ Cardinality(FirstSeen(search_results.metadatas[1])) = 2

\* ------------------------------------------------------------------------
\* C12: retrieve_and_generate is stateless with respect to the collection
\* ------------------------------------------------------------------------
\* C12: in any sequence of add_documents and retrieve_and_generate calls, no
\* step of a retrieve_and_generate call changes the stored records or
\* count(), and two calls that asked the same query with the same n_results
\* of the same collection returned identical dicts.
C12_Stateless ==
    /\ [][rpc' # rpc => /\ collection' = collection
                        /\ Count(collection') = Count(collection)]_vars
    /\ [](\A a \in 1..Len(returned) : \A b \in 1..Len(returned) :
             returned[a].asked = returned[b].asked => returned[a].result = returned[b].result)

\* two calls asked the same of a collection of two records, and returned the
\* two sources
C12_Witness ==
    /\ Len(returned) >= 2
    /\ returned[1].asked = returned[2].asked
    /\ Count(returned[2].asked.collection) = 2
    /\ Len(returned[2].result.sources) = 2
    /\ rpc = "returned"

\* a call made after an ingestion changed the collection returned something
\* else than the call before the ingestion
C12_WitnessIngestBetween ==
    /\ Len(returned) >= 2
    /\ returned[1].asked.query = returned[2].asked.query
    /\ returned[1].asked.n_results = returned[2].asked.n_results
    /\ returned[1].asked.collection # returned[2].asked.collection
    /\ returned[1].result # returned[2].result

\* ------------------------------------------------------------------------
\* C13: what an ingestion reports
\* ------------------------------------------------------------------------
\* the number of records of the collection that the call of p stored
StoredBy(p) == Cardinality({r \in collection : r.call = p})

\* C13 (as stated): a successful add_documents call returns the number of
\* passages of its input, and the response of /index reports that number.
C13_ReturnsPassageCount ==
    \A p \in Callers :
        response[p].status = 200 =>
            /\ add_value[p] = {Len(documents[p])}
            /\ response[p].total_articles = Len(documents[p])

\* C13 (amended): a successful add_documents call returns no value (None),
\* and the response of /index reports the number of articles that were
\* ingested, total_articles = len(articles), not the number of passages.
C13_ReportsArticles ==
    \A p \in Callers :
        response[p].status = 200 =>
            /\ apc[p] = "done"
            /\ add_value[p] = None
            /\ response[p].total_articles = Len(articles[p])
            /\ response[p].topics = topics[p]

\* a request answered with 200 whose two articles made five passages, all
\* of them stored
C13_Witness ==
    \E p \in Callers :
        /\ response[p].status = 200
        /\ response[p].total_articles = 2
        /\ Len(documents[p]) = 5
        /\ StoredBy(p) = 5

\* ------------------------------------------------------------------------
\* C14: /index when no article is found
\* ------------------------------------------------------------------------
\* C14: a request for which search_and_download returned no article is
\* answered with status 404 and the detail of line 209, and made no call on
\* the store; a response with status 500 comes only from a failed download
\* or a failed ingestion.
C14_NoArticles404 ==
    \A p \in Callers :
        hpc[p] = "responded" =>
            /\ download[p] = "empty" =>
                  /\ response[p].status = 404
                  /\ response[p].detail = NoArticlesDetail
                  /\ apc[p] = "idle"
            /\ response[p].status = 500 =>
                  \/ download[p] = "raised"
                  \/ apc[p] \in Ended \ {"done"}

====
